---- MODULE Spec2Model ----
(***************************************************************************)
(* A model of the event-siting repository: outlier-tract selection         *)
(* (event-siting.py), areal reaggregation (utils/geo.py), composite        *)
(* scoring (utils/scoring.py) and the orchestration of one pipeline run.   *)
(***************************************************************************)
EXTENDS Integers, Sequences, FiniteSets, TLC

VARIABLES
    pc,           \* the position of the program in the operation under way
    self,         \* the attributes of the EventSitingModel object
    call,         \* arguments and local variables of the function under way
    ret,          \* what the function returned or raised
    spatial_ops   \* the geometry-backend operations performed so far

vars == <<pc, self, call, ret, spatial_ops>>

(***************************************************************************)
(* Numbers.  A float of the program is modelled exactly as                 *)
(* (n / d) * sqrt(r) with d >= 0 and r >= 1.  d = 0 gives the IEEE         *)
(* specials: n > 0 is +inf, n < 0 is -inf and n = 0 is NaN (pandas' null). *)
(* Rounding and signed zeros are not modelled.                             *)
(***************************************************************************)
Abs(i) == IF i < 0 THEN -i ELSE i

Sgn(i) == IF i < 0 THEN -1 ELSE IF i > 0 THEN 1 ELSE 0

RECURSIVE Gcd(_, _)
Gcd(a, b) == IF b = 0 THEN a ELSE Gcd(b, a % b)

\* the largest k with k*k dividing r
RECURSIVE SquarePartFrom(_, _)
SquarePartFrom(r, k) ==
    IF k * k > r THEN 1
    ELSE LET rest == SquarePartFrom(r, k + 1)
         IN IF rest > 1 THEN rest ELSE IF r % (k * k) = 0 THEN k ELSE 1

SquarePart(r) == SquarePartFrom(r, 2)

\* canonical form: lowest terms, squarefree radicand
Norm(x) ==
    IF x.d = 0 THEN [n |-> Sgn(x.n), d |-> 0, r |-> 1]
    ELSE IF x.n = 0 THEN [n |-> 0, d |-> 1, r |-> 1]
    ELSE LET k == SquarePart(x.r)
             nn == x.n * k
             g == Gcd(Abs(nn), x.d)
         IN [n |-> nn \div g, d |-> x.d \div g, r |-> x.r \div (k * k)]

Rat(i) == [n |-> i, d |-> 1, r |-> 1]

NaN == [n |-> 0, d |-> 0, r |-> 1]

IsNaN(x) == x.n = 0 /\ x.d = 0

IsFinite(x) == x.d # 0

Neg(x) == [x EXCEPT !.n = -x.n]

Mul(x, y) == Norm([n |-> x.n * y.n, d |-> x.d * y.d, r |-> x.r * y.r])

\* 1 / ((n/d) sqrt r) = (d / (n r)) sqrt r; 1 / 0 is +inf
Inv(y) ==
    Norm([n |-> IF y.n = 0 THEN y.d ELSE Sgn(y.n) * y.d,
          d |-> Abs(y.n) * y.r,
          r |-> y.r])

Div(x, y) == Mul(x, Inv(y))

\* sum of two numbers with the same radicand (or one of them rational zero,
\* infinite or NaN)
Add(x, y) ==
    IF x.d # 0 /\ x.n = 0 THEN y
    ELSE IF y.d # 0 /\ y.n = 0 THEN x
    ELSE Norm([n |-> x.n * y.d + y.n * x.d, d |-> x.d * y.d, r |-> x.r])

Sub(x, y) == Add(x, Neg(y))

\* sign of u + v for two numbers of any radicands; NaN has no sign (2)
SignSum(u, v) ==
    IF IsNaN(u) \/ IsNaN(v) THEN 2
    ELSE IF u.d = 0 /\ v.d = 0 THEN (IF u.n = v.n THEN u.n ELSE 2)
    ELSE IF u.d = 0 THEN u.n
    ELSE IF v.d = 0 THEN v.n
    ELSE IF Sgn(u.n) = Sgn(v.n) \/ v.n = 0 THEN Sgn(u.n)
    ELSE IF u.n = 0 THEN Sgn(v.n)
    ELSE LET us == u.n * u.n * u.r * v.d * v.d
             vs == v.n * v.n * v.r * u.d * u.d
         IN IF us > vs THEN Sgn(u.n) ELSE IF us < vs THEN Sgn(v.n) ELSE 0

\* IEEE comparisons: anything compared with NaN is false
Gt(x, y) ==
    IF IsNaN(x) \/ IsNaN(y) THEN FALSE
    ELSE IF x.d = 0 /\ y.d = 0 THEN x.n > y.n
    ELSE SignSum(x, Neg(y)) = 1

Lt(x, y) == Gt(y, x)

NumEq(x, y) ==
    IF IsNaN(x) \/ IsNaN(y) THEN FALSE
    ELSE IF x.d = 0 /\ y.d = 0 THEN x.n = y.n
    ELSE SignSum(x, Neg(y)) = 0

\* square root of a rational
Sqrt(x) ==
    IF x.d = 0 THEN (IF x.n > 0 THEN x ELSE NaN)
    ELSE IF x.n < 0 THEN NaN
    ELSE IF x.n = 0 THEN x
    ELSE Norm([n |-> 1, d |-> x.d, r |-> x.n * x.d])

(***************************************************************************)
(* pandas Series statistics.  A Series is a sequence of numbers; mean and  *)
(* std skip nulls (skipna), std is the sample standard deviation (ddof=1). *)
(***************************************************************************)
RECURSIVE SumSeq(_)
SumSeq(s) == IF s = <<>> THEN Rat(0) ELSE Add(Head(s), SumSeq(Tail(s)))

NotNull(s) == SelectSeq(s, LAMBDA x : ~IsNaN(x))

SeriesMean(s) == Div(SumSeq(NotNull(s)), Rat(Len(NotNull(s))))

SeriesStd(s) ==
    LET v == NotNull(s)
        m == SeriesMean(s)
        sq == [i \in 1..Len(v) |-> Mul(Sub(v[i], m), Sub(v[i], m))]
    IN IF Len(v) <= 1 THEN NaN
       ELSE Sqrt(Div(SumSeq(sq), Rat(Len(v) - 1)))

\* the positions of a boolean mask that are true, in order
RECURSIVE MaskIdx(_, _)
MaskIdx(mask, i) ==
    IF i > Len(mask) THEN <<>>
    ELSE (IF mask[i] THEN <<i>> ELSE <<>>) \o MaskIdx(mask, i + 1)

\* frame[mask]: the rows whose mask entry is true, in the frame's order
BoolIndex(frame, mask) ==
    LET idx == MaskIdx(mask, 1) IN [j \in 1..Len(idx) |-> frame[idx[j]]]

Range(s) == {s[i] : i \in 1..Len(s)}

Column(frame, var) == [i \in 1..Len(frame) |-> frame[i][var]]

Returned(v) == [kind |-> "return", value |-> v]

Raised(e) == [kind |-> "raise", exc |-> e]

None == [kind |-> "None"]

(***************************************************************************)
(* EventSitingModel._get_tracts_of_interest                                *)
(***************************************************************************)
\* frame[key] for a key that is one scalar boolean: pandas looks the key up
\* among the column labels, where it is not found
ScalarBoolIndex(frame, key) == Raised("KeyError")

\* a variant that rejects only the call with no strategy
GetTractsOfInterest_NeitherOnly(tract_data, housing_loss_varname, min_mean_ratio, min_zscore) ==
    LET hloss == Column(tract_data, housing_loss_varname)
        hloss_mean == SeriesMean(hloss)
        mean_ratio == [i \in 1..Len(hloss) |-> Div(hloss[i], hloss_mean)]
    IN IF min_mean_ratio = None /\ min_zscore = None THEN Raised("ValueError")
       ELSE IF min_mean_ratio # None
       THEN Returned(BoolIndex(tract_data,
                [i \in 1..Len(hloss) |-> Gt(mean_ratio[i], min_mean_ratio)]))
       ELSE ScalarBoolIndex(tract_data, FALSE)

\* a variant that compares the raw value, not its ratio to the mean
GetTractsOfInterest_RawValue(tract_data, housing_loss_varname, min_mean_ratio, min_zscore) ==
    LET hloss == Column(tract_data, housing_loss_varname)
    IN IF (min_mean_ratio = None) = (min_zscore = None) THEN Raised("ValueError")
       ELSE IF min_mean_ratio # None
       THEN Returned(BoolIndex(tract_data,
                [i \in 1..Len(hloss) |-> Gt(hloss[i], min_mean_ratio)]))
       ELSE ScalarBoolIndex(tract_data, FALSE)

GetTractsOfInterest(tract_data, housing_loss_varname, min_mean_ratio, min_zscore) ==
    LET neither_provided == min_mean_ratio = None /\ min_zscore = None
        both_provided == min_mean_ratio # None /\ min_zscore # None
        hloss == Column(tract_data, housing_loss_varname)
        hloss_mean == SeriesMean(hloss)
        mean_ratio == [i \in 1..Len(hloss) |-> Div(hloss[i], hloss_mean)]
        hloss_std == SeriesStd(hloss)
        zscore == Div(hloss_mean, hloss_std)
    IN IF neither_provided \/ both_provided THEN Raised("ValueError")
       ELSE IF min_mean_ratio # None
       THEN Returned(BoolIndex(tract_data,
                [i \in 1..Len(hloss) |-> Gt(mean_ratio[i], min_mean_ratio)]))
       ELSE ScalarBoolIndex(tract_data, Gt(zscore, min_zscore))

(***************************************************************************)
(* Geometry.  The plane is a finite set of atoms (pieces no polygon of a   *)
(* run cuts); a polygon is the set of atoms it covers, and a polygon       *)
(* layer (GeoDataFrame) is a sequence of rows.  Atom 0 is a degenerate     *)
(* sliver whose area evaluates to 0; the atoms 1 and 2 have area 1.        *)
(***************************************************************************)
Atoms == {0, 1, 2}

\* the width of a grid cell of create_grid, in atoms
CellAtoms == 2

AtomArea(a) == IF a = 0 THEN 0 ELSE 1

RECURSIVE Area(_)
Area(g) ==
    IF g = {} THEN 0
    ELSE LET a == CHOOSE x \in g : TRUE IN AtomArea(a) + Area(g \ {a})

RECURSIVE SeqsUpTo(_, _)
SeqsUpTo(S, n) ==
    IF n = 0 THEN {<<>>}
    ELSE LET shorter == SeqsUpTo(S, n - 1)
         IN shorter \cup {Append(q, x) : q \in {t \in shorter : Len(t) = n - 1}, x \in S}

RECURSIVE UnionAll(_)
UnionAll(gs) == IF gs = <<>> THEN {} ELSE Head(gs) \cup UnionAll(Tail(gs))

RECURSIVE SetToSortedSeq(_)
SetToSortedSeq(S) ==
    IF S = {} THEN <<>>
    ELSE LET m == CHOOSE x \in S : \A y \in S : x <= y
         IN <<m>> \o SetToSortedSeq(S \ {m})

RECURSIVE Flatten(_)
Flatten(ss) == IF ss = <<>> THEN <<>> ELSE Head(ss) \o Flatten(Tail(ss))

\* a row of nulls over the given columns
NullRow(cols) == [c \in cols |-> NaN]

DataCols(frame_cols) == frame_cols \ {"geometry"}

(***************************************************************************)
(* geopandas overlay(how="union"): the intersections of every pair of     *)
(* rows, then the part of each left row outside every right row, then the  *)
(* part of each right row outside every left row.  A piece carries the     *)
(* columns of the rows it lies in and nulls for the other layer's columns; *)
(* empty pieces are not emitted.                                           *)
(***************************************************************************)
Overlay(left, lcols, right, rcols) ==
    LET piece(lrow, rrow, g) ==
            [c \in {"geometry"} \cup DataCols(lcols) \cup DataCols(rcols) |->
                IF c = "geometry" THEN g
                ELSE IF c \in lcols THEN lrow[c] ELSE rrow[c]]
        inter == Flatten([i \in 1..Len(left) |->
                    Flatten([j \in 1..Len(right) |->
                        LET g == left[i].geometry \cap right[j].geometry
                        IN IF g = {} THEN <<>>
                           ELSE <<piece(left[i], right[j], g)>>])])
        rightAll == UnionAll(Column(right, "geometry"))
        leftAll == UnionAll(Column(left, "geometry"))
        leftOnly == Flatten([i \in 1..Len(left) |->
                        LET g == left[i].geometry \ rightAll
                        IN IF g = {} THEN <<>>
                           ELSE <<piece(left[i], NullRow(rcols), g)>>])
        rightOnly == Flatten([j \in 1..Len(right) |->
                        LET g == right[j].geometry \ leftAll
                        IN IF g = {} THEN <<>>
                           ELSE <<piece(NullRow(lcols), right[j], g)>>])
    IN inter \o leftOnly \o rightOnly

(***************************************************************************)
(* pandas groupby(key).sum() of one column: one row per distinct non-null  *)
(* key, in ascending key order; nulls are skipped and a group of nulls     *)
(* sums to 0.                                                              *)
(***************************************************************************)
GroupKeys(frame, key) ==
    LET ks == {frame[i][key].n : i \in {j \in 1..Len(frame) : ~IsNaN(frame[j][key])}}
        sorted == SetToSortedSeq(ks)
    IN [i \in 1..Len(sorted) |-> Rat(sorted[i])]

GroupSum(frame, key, k, col) ==
    SumSeq(NotNull(Column(SelectSeq(frame, LAMBDA row : row[key] = k), col)))

\* pandas merge(on=key) of left with a right frame whose keys are unique and
\* non-null: how="inner" drops the left rows without a match, how="left"
\* keeps them with nulls in the right frame's columns
Merge(left, right, key, rcols, how) ==
    LET match(lrow) == SelectSeq(right, LAMBDA rrow : rrow[key] = lrow[key])
        joined(lrow) ==
            IF match(lrow) # <<>>
            THEN [i \in 1..Len(match(lrow)) |->
                    lrow @@ [c \in rcols |-> match(lrow)[i][c]]]
            ELSE IF how = "left" THEN <<lrow @@ NullRow(rcols)>>
            ELSE <<>>
    IN Flatten([i \in 1..Len(left) |-> joined(left[i])])

(***************************************************************************)
(* utils/geo.py: reaggregate, statement by statement                       *)
(***************************************************************************)
\* fragment_df["fragment_area"] = fragment_df["geometry"].to_crs(3857).area
FragmentArea(fragment_df) ==
    [i \in 1..Len(fragment_df) |->
        fragment_df[i] @@ [fragment_area |-> Rat(Area(fragment_df[i].geometry))]]

\* a variant that counts the fragments of a destination instead of summing
\* their areas
DstUnitAreas_Count(fragment_df, dst_id) ==
    LET keys == GroupKeys(fragment_df, dst_id)
    IN [i \in 1..Len(keys) |->
          [c \in {dst_id, "dst_unit_area"} |->
              IF c = dst_id THEN keys[i]
              ELSE Rat(Len(SelectSeq(fragment_df, LAMBDA row : row[dst_id] = keys[i])))]]

\* fragment_df.groupby(dst_id).sum()["fragment_area"], renamed dst_unit_area
DstUnitAreas(fragment_df, dst_id) ==
    LET keys == GroupKeys(fragment_df, dst_id)
    IN [i \in 1..Len(keys) |->
          [c \in {dst_id, "dst_unit_area"} |->
              IF c = dst_id THEN keys[i]
              ELSE GroupSum(fragment_df, dst_id, keys[i], "fragment_area")]]

\* the inner merge with dst_unit_areas and the division by dst_unit_area
FragmentAreaPct(fragment_df, dst_unit_areas, dst_id) ==
    LET merged == Merge(fragment_df, dst_unit_areas, dst_id, {"dst_unit_area"}, "inner")
    IN [i \in 1..Len(merged) |->
          merged[i] @@ [fragment_area_pct |->
                           Div(merged[i].fragment_area, merged[i].dst_unit_area)]]

\* fragment_df[var] *= fragment_df["fragment_area_pct"]
Redistribute(fragment_df, var) ==
    [i \in 1..Len(fragment_df) |->
        [fragment_df[i] EXCEPT ![var] = Mul(@, fragment_df[i].fragment_area_pct)]]

RECURSIVE RedistributeAll(_, _)
RedistributeAll(fragment_df, agg_vars) ==
    IF agg_vars = <<>> THEN fragment_df
    ELSE RedistributeAll(Redistribute(fragment_df, Head(agg_vars)), Tail(agg_vars))

\* fragment_df[agg_vars + [dst_id]].groupby(dst_id).sum().reset_index()
AggDf(fragment_df, agg_vars, dst_id) ==
    LET keys == GroupKeys(fragment_df, dst_id)
    IN [i \in 1..Len(keys) |->
          [c \in Range(agg_vars) \cup {dst_id} |->
              IF c = dst_id THEN keys[i]
              ELSE GroupSum(fragment_df, dst_id, keys[i], c)]]

\* a variant of the last merge that keeps only the matched destination rows
OutGdf_InnerMerge(dst_gdf, agg_df, agg_vars, dst_id) ==
    Merge(dst_gdf, agg_df, dst_id, Range(agg_vars), "inner")

\* dst_gdf.merge(agg_df, on=dst_id, how="left")
OutGdf(dst_gdf, agg_df, agg_vars, dst_id) ==
    Merge(dst_gdf, agg_df, dst_id, Range(agg_vars), "left")

\* the columns of the two layers handed to reaggregate
DstCols(dst_id) == {dst_id, "geometry"}

SrcCols(agg_vars) == Range(agg_vars) \cup {"geometry"}

\* the whole function, for callers
Reaggregate(src_gdf, dst_gdf, dst_id, agg_vars) ==
    LET fragment_df == FragmentArea(Overlay(dst_gdf, DstCols(dst_id),
                                            src_gdf, SrcCols(agg_vars)))
        with_pct == FragmentAreaPct(fragment_df, DstUnitAreas(fragment_df, dst_id), dst_id)
        weighted == RedistributeAll(with_pct, agg_vars)
    IN OutGdf(dst_gdf, AggDf(weighted, agg_vars, dst_id), agg_vars, dst_id)

\* bounds of the reaggregation specification
MaxSrc == 1

MaxDst == 2

PopValues == {Rat(100), Rat(40), NaN}

\* layers of pairwise disjoint polygons, as tracts and grid cells are
Disjoint(gs) == \A i, j \in 1..Len(gs) : i # j => gs[i] \cap gs[j] = {}

PolygonSeqs(n) == {gs \in SeqsUpTo(SUBSET Atoms, n) : Disjoint(gs)}

\* destination identifiers: in row order, in reverse order, or all the same
DstIdChoices(n) ==
    {[i \in 1..n |-> i], [i \in 1..n |-> n + 1 - i], [i \in 1..n |-> 1]}

InitReagg ==
    /\ pc = "call"
    /\ self = [k \in {} |-> 0]
    /\ \E sg \in PolygonSeqs(MaxSrc), dg \in PolygonSeqs(MaxDst) :
       \E pop \in [1..Len(sg) -> PopValues], ids \in DstIdChoices(Len(dg)) :
       \E src_crs \in {4326, 3857} :
          LET src == [i \in 1..Len(sg) |-> [geometry |-> sg[i], pop |-> pop[i]]]
              dst == [i \in 1..Len(dg) |-> [geometry |-> dg[i], cell_id |-> Rat(ids[i])]]
          IN call = [fn |-> "reaggregate",
                     args |-> [src_gdf |-> src, src_crs |-> src_crs,
                               dst_gdf |-> dst, dst_crs |-> 4326],
                     src_gdf |-> src, src_crs |-> src_crs,
                     dst_gdf |-> dst, dst_crs |-> 4326,
                     dst_id |-> "cell_id", agg_vars |-> <<"pop">>,
                     fragment_df |-> <<>>, dst_unit_areas |-> <<>>, var_i |-> 1]
    /\ ret = None
    /\ spatial_ops = <<>>

InReagg(pos) == pc = pos /\ call.fn = "reaggregate"

\* lines 132-133: the source layer is reprojected into a new local layer
ReaggAlignCrs ==
    /\ InReagg("call")
    /\ IF call.dst_crs # call.src_crs
       THEN /\ call' = [call EXCEPT !.src_crs = call.dst_crs]
            /\ spatial_ops' = Append(spatial_ops, "to_crs")
       ELSE UNCHANGED <<call, spatial_ops>>
    /\ pc' = "overlay"
    /\ UNCHANGED <<self, ret>>

ReaggOverlay ==
    /\ InReagg("overlay")
    /\ call' = [call EXCEPT !.fragment_df =
                    Overlay(call.dst_gdf, DstCols(call.dst_id),
                            call.src_gdf, SrcCols(call.agg_vars))]
    /\ spatial_ops' = Append(spatial_ops, "overlay")
    /\ pc' = "fragment_area"
    /\ UNCHANGED <<self, ret>>

ReaggFragmentArea ==
    /\ InReagg("fragment_area")
    /\ call' = [call EXCEPT !.fragment_df = FragmentArea(@)]
    /\ spatial_ops' = Append(spatial_ops, "area")
    /\ pc' = "dst_unit_areas"
    /\ UNCHANGED <<self, ret>>

ReaggDstUnitAreas ==
    /\ InReagg("dst_unit_areas")
    /\ call' = [call EXCEPT !.dst_unit_areas = DstUnitAreas(call.fragment_df, call.dst_id)]
    /\ pc' = "fragment_area_pct"
    /\ UNCHANGED <<self, ret, spatial_ops>>

ReaggFragmentAreaPct ==
    /\ InReagg("fragment_area_pct")
    /\ call' = [call EXCEPT !.fragment_df =
                    FragmentAreaPct(@, call.dst_unit_areas, call.dst_id)]
    /\ pc' = "redistribute"
    /\ UNCHANGED <<self, ret, spatial_ops>>

\* one iteration of the loop over agg_vars
ReaggRedistribute ==
    /\ InReagg("redistribute")
    /\ call.var_i <= Len(call.agg_vars)
    /\ call' = [call EXCEPT !.fragment_df = Redistribute(@, call.agg_vars[call.var_i]),
                            !.var_i = @ + 1]
    /\ UNCHANGED <<pc, self, ret, spatial_ops>>

\* lines 155-158: aggregate, merge onto the destination layer, return
ReaggReturn ==
    /\ InReagg("redistribute")
    /\ call.var_i > Len(call.agg_vars)
    /\ ret' = Returned(OutGdf(call.dst_gdf,
                              AggDf(call.fragment_df, call.agg_vars, call.dst_id),
                              call.agg_vars, call.dst_id))
    /\ pc' = "done"
    /\ UNCHANGED <<self, call, spatial_ops>>

NextReagg ==
    \/ ReaggAlignCrs
    \/ ReaggOverlay
    \/ ReaggFragmentArea
    \/ ReaggDstUnitAreas
    \/ ReaggFragmentAreaPct
    \/ ReaggRedistribute
    \/ ReaggReturn

SpecReagg == InitReagg /\ [][NextReagg]_vars

(***************************************************************************)
(* utils/scoring.py                                                        *)
(***************************************************************************)
\* (ds - ds.mean()) / ds.std()
Standardize(ds) ==
    LET m == SeriesMean(ds)
        sd == SeriesStd(ds)
    IN [i \in 1..Len(ds) |-> Div(Sub(ds[i], m), sd)]

SeriesMin(ds) ==
    LET v == NotNull(ds)
    IN IF v = <<>> THEN NaN
       ELSE CHOOSE x \in Range(v) : \A y \in Range(v) : ~Lt(y, x)

SeriesMax(ds) ==
    LET v == NotNull(ds)
    IN IF v = <<>> THEN NaN
       ELSE CHOOSE x \in Range(v) : \A y \in Range(v) : ~Gt(y, x)

\* (ds - ds.min()) / (ds.max() - ds.min())
Normalize(ds) ==
    [i \in 1..Len(ds) |->
        Div(Sub(ds[i], SeriesMin(ds)), Sub(SeriesMax(ds), SeriesMin(ds)))]

StdFunc(std_method, ds) ==
    IF std_method = "standardize" THEN Standardize(ds) ELSE Normalize(ds)

SetColumn(df, var, ds) == [i \in 1..Len(df) |-> [df[i] EXCEPT ![var] = ds[i]]]

\* a variant of the loop body that never flips the sign
ScoreStep_NoFlip(df, var, neg_vars, std_method) ==
    SetColumn(df, var, StdFunc(std_method, Column(df, var)))

\* the body of the loop over all_vars (lines 58-60), acting on df in place
ScoreStep(df, var, neg_vars, std_method) ==
    LET standardized == SetColumn(df, var, StdFunc(std_method, Column(df, var)))
    IN IF var \in Range(neg_vars)
       THEN SetColumn(standardized, var,
                      [i \in 1..Len(df) |-> Neg(standardized[i][var])])
       ELSE standardized

\* A score is a sum of numbers of pairwise different radicands, kept as the
\* sequence of its non-zero terms in ascending radicand order: <<>> is 0 and
\* <<NaN>> is null.
SumOfTerms(terms) ==
    IF \E i \in 1..Len(terms) : IsNaN(terms[i]) THEN <<NaN>>
    ELSE LET rads == SetToSortedSeq({terms[i].r : i \in 1..Len(terms)})
             part(r) == SumSeq(SelectSeq(terms, LAMBDA t : t.r = r))
         IN SelectSeq([k \in 1..Len(rads) |-> part(rads[k])],
                      LAMBDA t : t # Rat(0))

\* DataFrame.mean(axis=1) of one row: the mean of the values present
RowMean(values) ==
    LET present == NotNull(values)
    IN IF present = <<>> THEN <<NaN>>
       ELSE SumOfTerms([i \in 1..Len(present) |-> Div(present[i], Rat(Len(present)))])

\* df[all_vars].mean(axis=1)
MeanOverColumns(df, all_vars) ==
    [i \in 1..Len(df) |-> RowMean([k \in 1..Len(all_vars) |-> df[i][all_vars[k]]])]

\* the sign of a score of at most two terms; null has no sign (2)
ScoreSign(sc) ==
    IF sc = <<>> THEN 0
    ELSE IF Len(sc) = 1 THEN (IF IsNaN(sc[1]) THEN 2 ELSE Sgn(sc[1].n))
    ELSE SignSum(sc[1], sc[2])

ScoreLt(a, b) ==
    /\ a # <<NaN>>
    /\ b # <<NaN>>
    /\ ScoreSign(SumOfTerms(a \o [i \in 1..Len(b) |-> Neg(b[i])])) = -1

RECURSIVE ScoreLoop(_, _, _, _)
ScoreLoop(df, vs, neg_vars, std_method) ==
    IF vs = <<>> THEN df
    ELSE ScoreLoop(ScoreStep(df, Head(vs), neg_vars, std_method),
                   Tail(vs), neg_vars, std_method)

\* the whole function, for callers: the score and the table it leaves behind
GenerateIndexScore(df, pos_vars, neg_vars, std_method) ==
    LET all_vars == pos_vars \o neg_vars
        after == ScoreLoop(df, all_vars, neg_vars, std_method)
    IN [score |-> MeanOverColumns(after, all_vars), df |-> after]

\* bounds of the scoring specification
MaxRows == 3

ScoreValues == {Rat(1), Rat(2), Rat(3)}

VarLists == {<<>>, <<"a">>, <<"b">>, <<"a", "b">>}

\* The scorer treats all rows alike, so the tables are taken with their rows
\* in ascending order of column a.
Ascending(col) == \A i \in 1..(Len(col) - 1) : col[i].n <= col[i + 1].n

InitScore ==
    /\ pc = "call"
    /\ self = [k \in {} |-> 0]
    /\ \E n \in 1..MaxRows :
       \E a \in {c \in [1..n -> ScoreValues] : Ascending(c)}, b \in [1..n -> ScoreValues] :
       \E pos_vars \in VarLists, neg_vars \in VarLists :
       \E std_method \in {"standardize", "normalize"} :
          LET df == [i \in 1..n |-> [a |-> a[i], b |-> b[i]]]
          IN call = [fn |-> "generate_index_score",
                     args |-> [df |-> df],
                     df |-> df, pos_vars |-> pos_vars, neg_vars |-> neg_vars,
                     std_method |-> std_method,
                     all_vars |-> pos_vars \o neg_vars, var_i |-> 1]
    /\ ret = None
    /\ spatial_ops = <<>>

InScore(pos) == pc = pos /\ call.fn = "generate_index_score"

\* one iteration of the loop over all_vars
ScoreStandardizeVar ==
    /\ InScore("call")
    /\ call.var_i <= Len(call.all_vars)
    /\ call' = [call EXCEPT !.df = ScoreStep(@, call.all_vars[call.var_i],
                                              call.neg_vars, call.std_method),
                            !.var_i = @ + 1]
    /\ UNCHANGED <<pc, self, ret, spatial_ops>>

ScoreReturn ==
    /\ InScore("call")
    /\ call.var_i > Len(call.all_vars)
    /\ ret' = Returned(MeanOverColumns(call.df, call.all_vars))
    /\ pc' = "done"
    /\ UNCHANGED <<self, call, spatial_ops>>

NextScore == ScoreStandardizeVar \/ ScoreReturn

SpecScore == InitScore /\ [][NextScore]_vars

(***************************************************************************)
(* The geometry backend as the pipeline uses it.  In a pipeline run the    *)
(* atoms 1, 2, 3, ... lie side by side on a line, one atom wide; a point   *)
(* is the one-atom set of the atom it lies in.                             *)
(***************************************************************************)
\* utils/geo.py create_buffer: every polygon grown by the radius, dissolved
\* into one geometry
CreateBuffer(gdf, size_in_atoms) ==
    LET covered == UnionAll(Column(gdf, "geometry"))
    IN <<[geometry |-> UNION {(x - size_in_atoms)..(x + size_in_atoms) : x \in covered}]>>

\* gpd.sjoin(left, right), inner join on "intersects": one row for every
\* pair of a left row and a right row that intersect, in left order, with
\* the left row's geometry, the position of the right row as index_right
\* and the right row's other columns
SJoin(left, right) ==
    Flatten([i \in 1..Len(left) |->
        Flatten([j \in 1..Len(right) |->
            IF left[i].geometry \cap right[j].geometry # {}
            THEN <<left[i] @@ [index_right |-> j] @@ right[j]>>
            ELSE <<>>])])

DropColumn(frame, col) ==
    [i \in 1..Len(frame) |-> [c \in (DOMAIN frame[i]) \ {col} |-> frame[i][c]]]

\* the rows that equal no earlier row in the given columns
RECURSIVE DropDuplicatesFrom(_, _, _)
DropDuplicatesFrom(frame, subset, i) ==
    IF i > Len(frame) THEN <<>>
    ELSE (IF \E j \in 1..(i - 1) : \A c \in subset : frame[j][c] = frame[i][c]
          THEN <<>> ELSE <<frame[i]>>) \o DropDuplicatesFrom(frame, subset, i + 1)

\* DataFrame.drop_duplicates(): on every column, or on a subset
DropDuplicates(frame) ==
    IF frame = <<>> THEN frame ELSE DropDuplicatesFrom(frame, DOMAIN frame[1], 1)

DropDuplicatesOn(frame, subset) == DropDuplicatesFrom(frame, subset, 1)

\* utils/geo.py create_grid in one dimension: cells of CellAtoms atoms from
\* the lower bound of the layer up to its upper bound, numbered from 0 in
\* emission order, then filtered to the cells that intersect the layer
CreateGrid(gdf) ==
    LET covered == UnionAll(Column(gdf, "geometry"))
        lo == CHOOSE x \in covered : \A y \in covered : x <= y
        hi == CHOOSE x \in covered : \A y \in covered : x >= y
        starts == SetToSortedSeq({x \in lo..hi : (x - lo) % CellAtoms = 0})
        grid == [k \in 1..Len(starts) |->
                    [cell_id |-> Rat(k - 1),
                     geometry |-> starts[k]..(starts[k] + CellAtoms - 1)]]
    IN IF covered = {} THEN <<>>
       ELSE DropColumn(SJoin(grid, <<[geometry |-> covered]>>), "index_right")

(***************************************************************************)
(* event-siting.py: the stages of EventSitingModel.run                     *)
(***************************************************************************)
\* _load_inputs: the tract layer, the tract table merged onto it by geoid,
\* the points of the selected types and the grid, read or created
MergeTractData(tracts, tract_data_df) ==
    [i \in 1..Len(tracts) |->
        LET data == SelectSeq(tract_data_df, LAMBDA row : row.geoid = tracts[i].geoid)
        IN tracts[i] @@ data[1]]

FilterPois(pois, poi_types) == SelectSeq(pois, LAMBDA poi : poi.type \in poi_types)

\* _get_potential_cells
GetPotentialCells(grid, housing_outliers, pois, distance_radius_m) ==
    LET tract_buffer == CreateBuffer(housing_outliers, distance_radius_m)
        grid_in_buffer == DropColumn(SJoin(grid, tract_buffer), "index_right")
        poi_geometry == [i \in 1..Len(pois) |-> [geometry |-> pois[i].geometry]]
    IN [tract_buffer |-> tract_buffer,
        potential_cells |->
            DropColumn(DropDuplicates(SJoin(grid_in_buffer, poi_geometry)),
                       "index_right")]

\* _get_cell_event_scores, past its assertions
GetCellEventScores(tract_data, grid, grid_id_varname, pos_vars, neg_vars) ==
    LET all_vars == pos_vars \o neg_vars
        indicators_by_cell == Reaggregate(tract_data, grid, grid_id_varname, all_vars)
        scored == GenerateIndexScore(indicators_by_cell, pos_vars, neg_vars, "standardize")
    IN [i \in 1..Len(grid) |-> grid[i] @@ [event_score |-> scored.score[i]]]

\* the orders sort_values(by="event_score", ascending=False) may leave the
\* rows in: descending, nulls last, ties in any order
RowOrders(n) == {p \in [1..n -> 1..n] : \A i, j \in 1..n : i # j => p[i] # p[j]}

\* a variant that leaves the rows in the order of the join
SortedByScoreDescending_Unsorted(frame) == {frame}

SortedByScoreDescending(frame) ==
    {[i \in 1..Len(frame) |-> frame[p[i]]] : p \in
        {q \in RowOrders(Len(frame)) :
            \A i, j \in 1..Len(frame) :
                i < j => /\ ~ScoreLt(frame[q[i]].event_score, frame[q[j]].event_score)
                         /\ frame[q[i]].event_score = <<NaN>>
                                => frame[q[j]].event_score = <<NaN>>}}

\* a variant of _get_ranked_pois that keeps every row of the join
GetRankedPois_NoDedup(pois, cells_with_event_score) ==
    LET joined == DropColumn(SJoin(pois, cells_with_event_score), "index_right")
    IN [i \in 1..Len(joined) |->
          [joined[i] EXCEPT !.name = IF @ = "" THEN "NAME UNKNOWN" ELSE @]]

\* _get_ranked_pois, before the sort
GetRankedPois(pois, cells_with_event_score) ==
    LET joined == DropColumn(DropDuplicatesOn(SJoin(pois, cells_with_event_score), {"id"}),
                             "index_right")
    IN [i \in 1..Len(joined) |->
          [joined[i] EXCEPT !.name = IF @ = "" THEN "NAME UNKNOWN" ELSE @]]

\* bounds and inputs of the pipeline specification
TractLayers == {<<1..2, 3..4, 5..6>>, <<1..1, 2..3, 4..4>>}

HlossChoices ==
    {<<Rat(1), Rat(1), Rat(10)>>, <<Rat(10), Rat(1), Rat(1)>>, <<Rat(1), Rat(1), Rat(1)>>}

IndicatorChoices == {<<Rat(1), Rat(3), Rat(2)>>, <<Rat(3), Rat(1), Rat(2)>>}

Poi(x, type, name) == [geometry |-> {x}, type |-> type, name |-> name]

\* the point layers read: a point is an atom, a type and a name ("" when
\* the name is missing)
PoiLayers ==
    {<<>>,
     <<Poi(1, "library", "site")>>,
     <<Poi(1, "library", ""), Poi(4, "library", "site")>>,
     <<Poi(1, "bar", "site"), Poi(4, "library", "")>>,
     <<Poi(4, "library", "site"), Poi(5, "library", "hall"), Poi(1, "library", "")>>,
     <<Poi(2, "library", "site"), Poi(2, "library", "hall")>>,
     <<Poi(6, "library", "site"), Poi(3, "bar", "")>>}

VarChoices == {<<<<"a">>, <<"b">>>>, <<<<"a", "b">>, <<>>>>}

\* the grid read when a grid file is given
GridFile == <<[cell_id |-> Rat(7), geometry |-> 1..2], [cell_id |-> Rat(8), geometry |-> 3..5]>>

\* the state after EventSitingModel.__init__, with the files it will read
Init ==
    /\ pc = "run"
    /\ \E layer \in TractLayers, hloss \in HlossChoices, a \in IndicatorChoices :
       \E csv_columns \in {{"a", "b"}, {"a"}, {"b"}}, ps \in PoiLayers :
       \E crs \in {4326, 3857}, grid_path \in {"None", "grid.shp"} :
          call = [fn |-> "run",
                  files |-> [
                      tracts |-> [i \in 1..Len(layer) |->
                                     [geoid |-> i, geometry |-> layer[i]]],
                      tracts_crs |-> crs,
                      tract_data_df |-> [i \in 1..Len(layer) |->
                          [c \in {"geoid", "hloss"} \cup csv_columns |->
                              IF c = "geoid" THEN i
                              ELSE IF c = "hloss" THEN hloss[i]
                              ELSE IF c = "a" THEN a[i] ELSE Rat(2)]],
                      pois |-> [i \in 1..Len(ps) |-> ps[i] @@ [id |-> i]],
                      pois_crs |-> 4326,
                      grid |-> GridFile,
                      grid_crs |-> 4326]]
          /\ self \in {[_grid_path |-> grid_path,
                         _housing_loss_varname |-> "hloss",
                         _grid_id_varname |-> "None",
                         poi_types |-> {"library"},
                         distance_radius_m |-> r,
                         tract_positive_vars |-> v[1],
                         tract_negative_vars |-> v[2]] :
                            r \in {0, 1}, v \in VarChoices}
    /\ ret = None
    /\ spatial_ops = <<>>

\* lines 88-89: _setup_paths and _load_inputs
RunLoadInputs ==
    /\ pc = "run"
    /\ self' = [self EXCEPT !._grid_id_varname = "cell_id"] @@
          [tracts |-> call.files.tracts,
           tracts_crs |-> call.files.tracts_crs,
           tract_data |-> MergeTractData(call.files.tracts, call.files.tract_data_df),
           pois |-> FilterPois(call.files.pois, self.poi_types),
           pois_crs |-> call.files.pois_crs,
           grid |-> IF self._grid_path = "None" THEN CreateGrid(call.files.tracts)
                    ELSE call.files.grid,
           grid_crs |-> IF self._grid_path = "None" THEN call.files.tracts_crs
                        ELSE call.files.grid_crs]
    /\ spatial_ops' = IF self._grid_path = "None"
                      THEN spatial_ops \o <<"create_grid", "sjoin">>
                      ELSE spatial_ops
    /\ pc' = "_standardize_projections"
    /\ UNCHANGED <<call, ret>>

\* line 90: every layer not in the target CRS is reprojected into the loop
\* variable gdf, which is then dropped
ToCrsOps(crs, target_epsg) == IF crs # target_epsg THEN <<"to_crs">> ELSE <<>>

RunStandardizeProjections ==
    /\ pc = "_standardize_projections"
    /\ spatial_ops' = spatial_ops \o ToCrsOps(self.tracts_crs, 4326)
                          \o ToCrsOps(self.pois_crs, 4326)
                          \o ToCrsOps(self.grid_crs, 4326)
    /\ pc' = "_get_tracts_of_interest"
    /\ UNCHANGED <<self, call, ret>>

\* line 94: self._get_tracts_of_interest(min_mean_ratio=2)
RunGetTractsOfInterest ==
    /\ pc = "_get_tracts_of_interest"
    /\ LET r == GetTractsOfInterest(self.tract_data, self._housing_loss_varname,
                                    Rat(2), None)
       IN IF r.kind = "raise"
          THEN /\ ret' = r
               /\ pc' = "error"
               /\ UNCHANGED self
          ELSE /\ self' = self @@ [housing_outliers |-> r.value]
               /\ pc' = "_get_potential_cells"
               /\ UNCHANGED ret
    /\ UNCHANGED <<call, spatial_ops>>

\* line 98
RunGetPotentialCells ==
    /\ pc = "_get_potential_cells"
    /\ self' = self @@ GetPotentialCells(self.grid, self.housing_outliers, self.pois,
                                         self.distance_radius_m)
    /\ spatial_ops' = spatial_ops \o <<"create_buffer", "sjoin", "sjoin">>
    /\ pc' = "_get_cell_event_scores"
    /\ UNCHANGED <<call, ret>>

TractDataColumns == IF self.tract_data = <<>> THEN {} ELSE DOMAIN self.tract_data[1]

\* line 102: the assertions of lines 235-236, then reaggregation and scoring
RunGetCellEventScores ==
    /\ pc = "_get_cell_event_scores"
    /\ LET all_vars == self.tract_positive_vars \o self.tract_negative_vars
       IN IF \E var \in Range(all_vars) : var \notin TractDataColumns
          THEN /\ ret' = Raised("AssertionError")
               /\ pc' = "error"
               /\ UNCHANGED <<self, spatial_ops>>
          ELSE /\ self' = self @@
                     [event_scores_all_cells |->
                        GetCellEventScores(self.tract_data, self.grid,
                                           self._grid_id_varname,
                                           self.tract_positive_vars,
                                           self.tract_negative_vars)]
               /\ spatial_ops' = spatial_ops \o <<"overlay", "area">>
               /\ pc' = "merge"
               /\ UNCHANGED ret
    /\ UNCHANGED call

\* lines 103-107
RunMergeScores ==
    /\ pc = "merge"
    /\ self' = self @@
          [cells_with_event_score |->
              Merge(self.potential_cells,
                    DropColumn(self.event_scores_all_cells, "geometry"),
                    self._grid_id_varname, {"event_score"}, "left")]
    /\ pc' = "_get_ranked_pois"
    /\ UNCHANGED <<call, ret, spatial_ops>>

\* line 111
RunGetRankedPois ==
    /\ pc = "_get_ranked_pois"
    /\ \E ranked \in SortedByScoreDescending(
                          GetRankedPois(self.pois, self.cells_with_event_score)) :
          self' = self @@ [ranked_pois |-> ranked]
    /\ spatial_ops' = Append(spatial_ops, "sjoin")
    /\ pc' = "_output_ranked_pois"
    /\ UNCHANGED <<call, ret>>

\* lines 115-121: the export and the plots
RunOutput ==
    /\ pc = "_output_ranked_pois"
    /\ ret' = Returned(self.ranked_pois)
    /\ pc' = "done"
    /\ UNCHANGED <<self, call, spatial_ops>>

Next ==
    \/ RunLoadInputs
    \/ RunStandardizeProjections
    \/ RunGetTractsOfInterest
    \/ RunGetPotentialCells
    \/ RunGetCellEventScores
    \/ RunMergeScores
    \/ RunGetRankedPois
    \/ RunOutput

Spec == Init /\ [][Next]_vars

\* bounds of the outlier-selection specification
MaxTracts == 4

TractValues == {Rat(-3), Rat(-1), Rat(0), Rat(1), Rat(10), NaN}

Thresholds == {None, Rat(-1), Rat(0), Rat(1), Rat(2)}

HlossTable(values) == [i \in 1..Len(values) |-> [geoid |-> i, hloss |-> values[i]]]

InitOutlier ==
    /\ pc = "call"
    /\ \E values \in SeqsUpTo(TractValues, MaxTracts) :
          self = [tract_data |-> HlossTable(values), _housing_loss_varname |-> "hloss"]
    /\ \E k \in Thresholds, t \in Thresholds :
          call = [fn |-> "_get_tracts_of_interest", min_mean_ratio |-> k, min_zscore |-> t]
    /\ ret = None
    /\ spatial_ops = <<>>

CallGetTractsOfInterest ==
    /\ pc = "call"
    /\ call.fn = "_get_tracts_of_interest"
    /\ ret' = GetTractsOfInterest(self.tract_data, self._housing_loss_varname,
                                  call.min_mean_ratio, call.min_zscore)
    /\ pc' = "done"
    /\ UNCHANGED <<self, call, spatial_ops>>

NextOutlier == CallGetTractsOfInterest

SpecOutlier == InitOutlier /\ [][NextOutlier]_vars

(***************************************************************************)
(* Claims about outlier selection (specification SpecOutlier)              *)
(***************************************************************************)
OutlierDone == pc = "done" /\ call.fn = "_get_tracts_of_interest"

BothProvided == call.min_mean_ratio # None /\ call.min_zscore # None

NeitherProvided == call.min_mean_ratio = None /\ call.min_zscore = None

RatioOnly == call.min_mean_ratio # None /\ call.min_zscore = None

ZscoreOnly == call.min_mean_ratio = None /\ call.min_zscore # None

\* C1: a call with both thresholds or with neither raises the configuration
\* error (ValueError) and returns no selection; a call with exactly one of
\* them does not raise that error.
C1_ExactlyOneStrategy ==
    OutlierDone =>
        /\ (BothProvided \/ NeitherProvided) => ret = Raised("ValueError")
        /\ (RatioOnly \/ ZscoreOnly) => ret # Raised("ValueError")

C1_Witness ==
    /\ OutlierDone
    /\ BothProvided
    /\ Len(self.tract_data) = 4
    /\ ret = Raised("ValueError")

\* the tract values that are present, as integers, and their sum
RECURSIVE IntSum(_)
IntSum(s) == IF s = <<>> THEN 0 ELSE Head(s).n + IntSum(Tail(s))

HlossPresent == NotNull(Column(self.tract_data, "hloss"))

HlossSum == IntSum(HlossPresent)

HlossCount == Len(HlossPresent)

\* value > k * mean, with mean = HlossSum / HlossCount, over the integers
ExceedsKTimesMean(row, k) ==
    /\ ~IsNaN(row.hloss)
    /\ HlossCount > 0
    /\ row.hloss.n * HlossCount > k.n * HlossSum

BelowKTimesMean(row, k) ==
    /\ ~IsNaN(row.hloss)
    /\ HlossCount > 0
    /\ row.hloss.n * HlossCount < k.n * HlossSum

\* C3 as stated: for every set of tract values, the ratio strategy returns
\* exactly the tracts whose value exceeds k times the county mean, in input
\* order.
C3_Original ==
    (OutlierDone /\ RatioOnly) =>
        ret = Returned(SelectSeq(self.tract_data,
                  LAMBDA row : ExceedsKTimesMean(row, call.min_mean_ratio)))

\* C3 amended: the ratio strategy returns, in input order, exactly the tracts
\* whose value exceeds k times the county mean when that mean is zero or
\* positive; when the mean is negative the division flips the comparison and
\* it returns exactly the tracts whose value is below k times the mean.
C3_RatioToMean ==
    (OutlierDone /\ RatioOnly) =>
        ret = Returned(SelectSeq(self.tract_data,
                  LAMBDA row : IF HlossSum >= 0
                               THEN ExceedsKTimesMean(row, call.min_mean_ratio)
                               ELSE BelowKTimesMean(row, call.min_mean_ratio)))

\* the scenario of the specification: values [1,1,1,10] with k = 2 keep only
\* the tract with value 10
C3_Witness ==
    /\ OutlierDone
    /\ RatioOnly
    /\ call.min_mean_ratio = Rat(2)
    /\ Column(self.tract_data, "hloss") = <<Rat(1), Rat(1), Rat(1), Rat(10)>>
    /\ ret = Returned(<<[geoid |-> 4, hloss |-> Rat(10)]>>)

\* a tract's own z-score, (value - county mean) / county standard deviation
TractZscore(row) ==
    LET hloss == Column(self.tract_data, "hloss")
    IN Div(Sub(row.hloss, SeriesMean(hloss)), SeriesStd(hloss))

\* C4: the z-score strategy returns exactly the tracts whose own z-score
\* exceeds the threshold t, decided tract by tract.
C4_TractByTractZscore ==
    (OutlierDone /\ ZscoreOnly) =>
        ret = Returned(SelectSeq(self.tract_data,
                  LAMBDA row : Gt(TractZscore(row), call.min_zscore)))

(***************************************************************************)
(* Claims about reaggregation (specification SpecReagg)                    *)
(***************************************************************************)
ReaggDone == InReagg("done")

\* fragment_area_pct has been computed
ReaggWeighted == InReagg("redistribute") \/ InReagg("done")

SrcRegion == UnionAll(Column(call.args.src_gdf, "geometry"))

DstRegion == UnionAll(Column(call.args.dst_gdf, "geometry"))

UniqueDstIds ==
    \A i, j \in 1..Len(call.args.dst_gdf) :
        i # j => call.args.dst_gdf[i].cell_id # call.args.dst_gdf[j].cell_id

ColumnTotal(frame, var) == SumSeq(NotNull(Column(frame, var)))

\* C5: when every source polygon lies inside the destination region, the
\* redistributed attribute summed over the destination units equals the
\* attribute summed over the source polygons; one source polygon with pop=100
\* covering two equal-area cells gives pop=50 on each.
C5_MassConserved ==
    (/\ ReaggDone
     /\ UniqueDstIds
     /\ SrcRegion \subseteq DstRegion
     /\ \A i \in 1..Len(call.args.src_gdf) :
            /\ Area(call.args.src_gdf[i].geometry) > 0
            /\ ~IsNaN(call.args.src_gdf[i].pop)
     /\ \A i \in 1..Len(call.args.dst_gdf) : Area(call.args.dst_gdf[i].geometry) > 0)
    => /\ ColumnTotal(ret.value, "pop") = ColumnTotal(call.args.src_gdf, "pop")
       /\ (/\ call.args.src_gdf = <<[geometry |-> {1, 2}, pop |-> Rat(100)]>>
           /\ Column(call.args.dst_gdf, "geometry") = <<{1}, {2}>>)
          => Column(ret.value, "pop") = <<Rat(50), Rat(50)>>

\* C6: once the weights are computed, the fragment_area_pct of the fragments
\* of a destination identifier with non-zero dst_unit_area sum to 1, each
\* lies in [0,1], and no fragment without a destination identifier is left
\* among the weighted fragments.
C6_AreaWeightsSumToOne ==
    ReaggWeighted =>
        /\ \A u \in Range(call.dst_unit_areas) :
              u.dst_unit_area # Rat(0) =>
                  LET mine == SelectSeq(call.fragment_df,
                                        LAMBDA f : f.cell_id = u.cell_id)
                  IN /\ ColumnTotal(mine, "fragment_area_pct") = Rat(1)
                     /\ \A f \in Range(mine) :
                            /\ ~Lt(f.fragment_area_pct, Rat(0))
                            /\ ~Gt(f.fragment_area_pct, Rat(1))
                            /\ ~IsNaN(f.fragment_area_pct)
        /\ \A f \in Range(call.fragment_df) : ~IsNaN(f.cell_id)

\* a destination cut in two halves, beside a source part outside every
\* destination
C6_Witness ==
    /\ InReagg("redistribute")
    /\ ~(SrcRegion \subseteq DstRegion)
    /\ \E f, g \in Range(call.fragment_df) :
          /\ f # g
          /\ f.cell_id = g.cell_id
          /\ f.fragment_area_pct = [n |-> 1, d |-> 2, r |-> 1]
          /\ g.fragment_area_pct = [n |-> 1, d |-> 2, r |-> 1]

\* C7: with unique destination identifiers the output has exactly one row
\* per destination record, in the destination's order and with its geometry,
\* and a destination record that overlaps no source polygon has a null or
\* zero attribute.
C7_OneRowPerDestination ==
    (ReaggDone /\ UniqueDstIds) =>
        /\ Len(ret.value) = Len(call.args.dst_gdf)
        /\ \A i \in 1..Len(call.args.dst_gdf) :
              /\ ret.value[i].cell_id = call.args.dst_gdf[i].cell_id
              /\ ret.value[i].geometry = call.args.dst_gdf[i].geometry
              /\ call.args.dst_gdf[i].geometry \cap SrcRegion = {}
                    => (IsNaN(ret.value[i].pop) \/ ret.value[i].pop = Rat(0))

C7_Witness ==
    /\ ReaggDone
    /\ UniqueDstIds
    /\ Len(call.args.dst_gdf) = 2
    /\ call.args.dst_gdf[1].geometry = {1}
    /\ call.args.dst_gdf[1].geometry \cap SrcRegion = {}
    /\ call.args.dst_gdf[2].geometry = {}
    /\ ret.value[1].pop = Rat(0)
    /\ IsNaN(ret.value[2].pop)

\* C8: a destination whose dst_unit_area is zero never gets an undefined
\* weight: no NaN from 0/0 is computed into fragment_area_pct or carried on.
C8_ZeroAreaHandled ==
    ReaggWeighted =>
        \A f \in Range(call.fragment_df) :
            f.dst_unit_area = Rat(0) => ~IsNaN(f.fragment_area_pct)

(***************************************************************************)
(* Claims about the composite scorer (specification SpecScore)             *)
(***************************************************************************)
ScoreDone == InScore("done")

\* the column as the caller passed it is constant, with standard deviation 0
ConstantColumn(var) == SeriesStd(Column(call.args.df, var)) = Rat(0)

\* C9: a listed column that is constant over the table (standard deviation
\* 0) is standardized to 0 in every row, not to an undefined value.
C9_ConstantColumnIsZero ==
    (ScoreDone /\ call.std_method = "standardize") =>
        \A var \in Range(call.all_vars) :
            ConstantColumn(var) =>
                \A i \in 1..Len(call.df) : call.df[i][var] = Rat(0)

OneTwoThree == <<Rat(1), Rat(2), Rat(3)>>

\* the scenario: positive column a = [1,2,3], negative column b = [1,2,3]
C10_Scenario ==
    /\ ScoreDone
    /\ call.std_method = "standardize"
    /\ call.pos_vars = <<"a">>
    /\ call.neg_vars = <<"b">>
    /\ Column(call.args.df, "a") = OneTwoThree
    /\ Column(call.args.df, "b") = OneTwoThree

\* C10 as stated: in the scenario the score of row 1 is strictly less than
\* the score of row 3.
C10_Original == C10_Scenario => ScoreLt(ret.value[1], ret.value[3])

\* C10 amended: in the scenario the two standardized columns cancel row by
\* row, so row 1 and row 3 get the same composite score, 0.
C10_ScoresCancel ==
    C10_Scenario => (ret.value[1] = <<>> /\ ret.value[3] = <<>>)

C10_Witness ==
    /\ C10_Scenario
    /\ Column(call.df, "a") = <<Rat(-1), Rat(0), Rat(1)>>
    /\ Column(call.df, "b") = <<Rat(1), Rat(0), Rat(-1)>>
    /\ ret.value = <<<<>>, <<>>, <<>>>>

(***************************************************************************)
(* Claims about a pipeline run (specification Spec)                        *)
(***************************************************************************)
ConfigurationError == ret \in {Raised("ValueError"), Raised("AssertionError")}

\* C2: whenever a run ends in a configuration error (an invalid strategy
\* combination or a configured indicator column missing from the tract
\* data), no spatial computation has been performed before it: no grid
\* creation, no buffer, no spatial join, no overlay.
C2_ConfigErrorBeforeSpatialWork ==
    (pc = "error" /\ ConfigurationError) => spatial_ops = <<>>

(***************************************************************************)
(* utils/geo.py create_grid on coordinates.  A coordinate is an integer    *)
(* count of steps of 1/Resolution metre in EPSG:3857, half the step the    *)
(* bounds are rounded to, so that rounding down and rounding up differ.    *)
(***************************************************************************)
Decimals == 2

RoundingFactor == 10 ^ Decimals

Resolution == 2 * RoundingFactor

RoundingStep == Resolution \div RoundingFactor

\* np.floor(start * rounding_factor) / rounding_factor
FloorRounded(v) == v - (v % RoundingStep)

\* np.ceil(end * rounding_factor) / rounding_factor
CeilRounded(v) == v + ((-v) % RoundingStep)

Metres(m) == m * Resolution

\* np.arange(start, end, size): start, start + size, ... strictly below end
RECURSIVE Arange(_, _, _)
Arange(start, end, size) ==
    IF start >= end THEN <<>> ELSE <<start>> \o Arange(start + size, end, size)

\* a variant of the coordinate array that also takes the upper bound itself
RECURSIVE Arange_Inclusive(_, _, _)
Arange_Inclusive(start, end, size) ==
    IF start > end THEN <<>> ELSE <<start>> \o Arange_Inclusive(start + size, end, size)

CreateGridCoords1d_Inclusive(start, end, size) ==
    Arange_Inclusive(FloorRounded(start), CeilRounded(end), Metres(size))

\* _create_grid_coords_1d
CreateGridCoords1d(start, end, size) ==
    Arange(FloorRounded(start), CeilRounded(end), Metres(size))

Reversed(seq) == [i \in 1..Len(seq) |-> seq[Len(seq) + 1 - i]]

SetMin(S) == CHOOSE x \in S : \A y \in S : x <= y

SetMax(S) == CHOOSE x \in S : \A y \in S : x >= y

\* a polygon is the sequence of its corners <<x, y>>; the polygons of the
\* reference layer are rectangles
Box(minx, miny, maxx, maxy) ==
    <<<<minx, maxy>>, <<maxx, maxy>>, <<maxx, miny>>, <<minx, miny>>>>

Xs(polygon) == {polygon[k][1] : k \in 1..Len(polygon)}

Ys(polygon) == {polygon[k][2] : k \in 1..Len(polygon)}

\* GeoDataFrame.total_bounds: min_x, min_y, max_x, max_y
TotalBounds(gdf) ==
    LET xs == UNION {Xs(gdf[i].geometry) : i \in 1..Len(gdf)}
        ys == UNION {Ys(gdf[i].geometry) : i \in 1..Len(gdf)}
    IN [min_x |-> SetMin(xs), min_y |-> SetMin(ys),
        max_x |-> SetMax(xs), max_y |-> SetMax(ys)]

\* lines 66-73: the polygon appended for the coordinate pair (x, y)
CellPolygon(x, y, size_in_meters) ==
    <<<<x, y>>,
      <<x + Metres(size_in_meters), y>>,
      <<x + Metres(size_in_meters), y - Metres(size_in_meters)>>,
      <<x, y - Metres(size_in_meters)>>>>

\* the predicate "intersects" of two rectangles: they share a point, be it
\* only a boundary point
Intersects(p, q) ==
    /\ SetMin(Xs(p)) <= SetMax(Xs(q)) /\ SetMin(Xs(q)) <= SetMax(Xs(p))
    /\ SetMin(Ys(p)) <= SetMax(Ys(q)) /\ SetMin(Ys(q)) <= SetMax(Ys(p))

\* a variant of the filter that numbers the kept cells afresh
FilterGrid_Renumbered(grid, gdf) ==
    LET kept == SelectSeq(grid, LAMBDA cell :
                    \E i \in 1..Len(gdf) : Intersects(cell.geometry, gdf[i].geometry))
    IN [k \in 1..Len(kept) |-> [kept[k] EXCEPT !.cell_id = k - 1]]

\* line 82-83: gpd.sjoin(grid, gdf[["geometry"]].dissolve(), how="inner")
\* without index_right: the cells that intersect the union of the layer
FilterGrid(grid, gdf) ==
    SelectSeq(grid, LAMBDA cell :
        \E i \in 1..Len(gdf) : Intersects(cell.geometry, gdf[i].geometry))

\* inputs of the grid specification
GridCoordinates ==
    {Metres(0), Metres(0) + 1, Metres(500), Metres(1000) - 1, Metres(1000), Metres(2000)}

GridBoxes ==
    UNION {{Box(x0, y0, x1, y1) : x1 \in {x \in GridCoordinates : x >= x0},
                                  y1 \in {y \in GridCoordinates : y >= y0}} :
               x0 \in GridCoordinates, y0 \in GridCoordinates}

\* the reference layers: one rectangle, or an L of two
GridLayers ==
    {<<[geometry |-> b]>> : b \in GridBoxes} \cup
    {<<[geometry |-> Box(Metres(0), Metres(0), Metres(500), Metres(2000))],
       [geometry |-> Box(Metres(500), Metres(0), Metres(2000), Metres(500))]>>,
     <<[geometry |-> Box(Metres(0), Metres(1000), Metres(500), Metres(2000))],
       [geometry |-> Box(Metres(1000) + 1, Metres(0), Metres(2000), Metres(500))]>>}

GridSizes == {500, 1000}

InitGrid ==
    /\ pc = "call"
    /\ \E gdf \in GridLayers, size_in_meters \in GridSizes, filter \in BOOLEAN :
          call = [fn |-> "create_grid",
                  gdf |-> gdf,
                  size_in_meters |-> size_in_meters,
                  filter |-> filter,
                  cols |-> <<>>,
                  rows |-> <<>>,
                  polygons |-> <<>>,
                  grid |-> <<>>,
                  col_i |-> 1,
                  row_i |-> 1]
    /\ self = <<>>
    /\ ret = None
    /\ spatial_ops = <<>>

InGrid(at) == pc = at /\ call.fn = "create_grid"

\* lines 50-60: the bounds, the column and row coordinates, rows reversed
GridCoords ==
    /\ InGrid("call")
    /\ LET b == TotalBounds(call.gdf)
       IN call' = [call EXCEPT
              !.cols = CreateGridCoords1d(b.min_x, b.max_x, call.size_in_meters),
              !.rows = Reversed(CreateGridCoords1d(b.min_y, b.max_y,
                                                   call.size_in_meters))]
    /\ pc' = "loop"
    /\ UNCHANGED <<self, ret, spatial_ops>>

\* lines 63-75: one pass of the inner loop
GridAppendPolygon ==
    /\ InGrid("loop")
    /\ call.col_i <= Len(call.cols)
    /\ call.rows # <<>>
    /\ call' = [call EXCEPT
          !.polygons = Append(@, CellPolygon(call.cols[call.col_i],
                                             call.rows[call.row_i],
                                             call.size_in_meters)),
          !.row_i = IF call.row_i = Len(call.rows) THEN 1 ELSE @ + 1,
          !.col_i = IF call.row_i = Len(call.rows) THEN @ + 1 ELSE @]
    /\ UNCHANGED <<pc, self, ret, spatial_ops>>

\* lines 78-79: the frame of the polygons, cell_id = the index
GridAssignIds ==
    /\ InGrid("loop")
    /\ call.col_i > Len(call.cols) \/ call.rows = <<>>
    /\ call' = [call EXCEPT
          !.grid = [k \in 1..Len(call.polygons) |->
                       [geometry |-> call.polygons[k], cell_id |-> k - 1]]]
    /\ pc' = "filter"
    /\ UNCHANGED <<self, ret, spatial_ops>>

\* lines 81-86
GridFilterAndReturn ==
    /\ InGrid("filter")
    /\ ret' = Returned(IF call.filter THEN FilterGrid(call.grid, call.gdf)
                       ELSE call.grid)
    /\ pc' = "done"
    /\ UNCHANGED <<self, call, spatial_ops>>

NextGrid ==
    \/ GridCoords
    \/ GridAppendPolygon
    \/ GridAssignIds
    \/ GridFilterAndReturn

SpecGrid == InitGrid /\ [][NextGrid]_vars

(***************************************************************************)
(* Claims about create_grid (specification SpecGrid)                       *)
(***************************************************************************)
\* the unfiltered grid is built
GridBuilt == InGrid("filter") \/ InGrid("done")

GridDone == InGrid("done")

Left(polygon) == SetMin(Xs(polygon))

Right(polygon) == SetMax(Xs(polygon))

Bottom(polygon) == SetMin(Ys(polygon))

Top(polygon) == SetMax(Ys(polygon))

\* C11: before filtering the cell ids are 0..N-1 in emission order, columns
\* left to right and rows top to bottom within a column; after filtering
\* the ids are still pairwise distinct and every kept cell has the id it
\* had before.
C11_CellIdsUniqueAndDense ==
    /\ GridBuilt =>
          /\ \A k \in 1..Len(call.grid) : call.grid[k].cell_id = k - 1
          /\ \A k, l \in 1..Len(call.grid) :
                k < l =>
                   \/ Left(call.grid[k].geometry) < Left(call.grid[l].geometry)
                   \/ /\ Left(call.grid[k].geometry) = Left(call.grid[l].geometry)
                      /\ Top(call.grid[k].geometry) > Top(call.grid[l].geometry)
    /\ GridDone =>
          /\ \A k, l \in 1..Len(ret.value) :
                k # l => ret.value[k].cell_id # ret.value[l].cell_id
          /\ \A k \in 1..Len(ret.value) : ret.value[k] \in Range(call.grid)

\* a filtered grid that lost a cell in the middle: the ids are not dense
C11_Witness ==
    /\ GridDone
    /\ call.filter
    /\ Len(ret.value) >= 2
    /\ Len(ret.value) < Len(call.grid)
    /\ \E k \in 1..Len(ret.value) : ret.value[k].cell_id # k - 1

\* the multiples of the cell size from the rounded-down lower bound that
\* lie strictly below the rounded-up upper bound
CoordinatesBetween(lower, upper, size_in_meters) ==
    {v \in {FloorRounded(lower) + k * Metres(size_in_meters) :
              k \in 0..((CeilRounded(upper) - FloorRounded(lower))
                           \div Metres(size_in_meters))} :
        v < CeilRounded(upper)}

TwoByOneScenario ==
    /\ call.gdf = <<[geometry |-> Box(Metres(0), Metres(0), Metres(2000), Metres(1000))]>>
    /\ call.size_in_meters = 1000

\* C12: before filtering there is exactly one cell for every pair of a
\* column coordinate and a row coordinate, these being the multiples of
\* the cell size from the rounded-down minimum strictly below the
\* rounded-up maximum; the region [0,2000] x [0,1000] with cell size 1000
\* gets exactly 2 cells.
C12_OneCellPerCoordinatePair ==
    GridBuilt =>
        LET b == TotalBounds(call.gdf)
            xs == CoordinatesBetween(b.min_x, b.max_x, call.size_in_meters)
            ys == CoordinatesBetween(b.min_y, b.max_y, call.size_in_meters)
        IN /\ Len(call.grid) = Cardinality(xs) * Cardinality(ys)
           /\ \A x \in xs, y \in ys :
                 Cardinality({k \in 1..Len(call.grid) :
                                 call.grid[k].geometry[1] = <<x, y>>}) = 1
           /\ TwoByOneScenario => Len(call.grid) = 2

C12_Witness ==
    /\ GridDone
    /\ TwoByOneScenario
    /\ ~call.filter
    /\ Len(ret.value) = 2
    /\ ret.value[1].geometry[1] = <<Metres(0), Metres(0)>>
    /\ ret.value[2].geometry[1] = <<Metres(1000), Metres(0)>>

\* the corners and the centre of the bounding box of the reference layer
BoundingBoxSample ==
    LET b == TotalBounds(call.gdf)
    IN {<<b.min_x, b.min_y>>, <<b.min_x, b.max_y>>, <<b.max_x, b.min_y>>,
        <<b.max_x, b.max_y>>,
        <<(b.min_x + b.max_x) \div 2, (b.min_y + b.max_y) \div 2>>}

InCell(point, polygon) ==
    /\ Left(polygon) <= point[1] /\ point[1] <= Right(polygon)
    /\ Bottom(polygon) <= point[2] /\ point[2] <= Top(polygon)

InteriorsDisjoint(p, q) ==
    \/ Right(p) <= Left(q) \/ Right(q) <= Left(p)
    \/ Top(p) <= Bottom(q) \/ Top(q) <= Bottom(p)

ProperBoundingBox ==
    LET b == TotalBounds(call.gdf)
    IN b.min_x < b.max_x /\ b.min_y < b.max_y

\* C20: the cells emitted before filtering tessellate the bounding box of
\* the reference layer (a box of positive width and height): every point
\* of the box (here its corners and its centre) lies in or on some cell,
\* the cells have pairwise disjoint interiors, and every cell is a square
\* whose side is the cell size.
C20_CellsTessellateBoundingBox ==
    (GridBuilt /\ ProperBoundingBox) =>
        /\ \A point \in BoundingBoxSample :
              \E k \in 1..Len(call.grid) : InCell(point, call.grid[k].geometry)
        /\ \A k, l \in 1..Len(call.grid) :
              k # l => InteriorsDisjoint(call.grid[k].geometry, call.grid[l].geometry)
        /\ \A k \in 1..Len(call.grid) :
              /\ Right(call.grid[k].geometry) - Left(call.grid[k].geometry)
                    = Metres(call.size_in_meters)
              /\ Top(call.grid[k].geometry) - Bottom(call.grid[k].geometry)
                    = Metres(call.size_in_meters)

(***************************************************************************)
(* Claims about the later stages of a pipeline run (specification Spec)    *)
(***************************************************************************)
PotentialCellsDone == call.fn = "run" /\ "potential_cells" \in DOMAIN self

\* the cell intersects the buffer around the outlier tracts and holds at
\* least one point of an allowed type
IsPotentialCell(cell) ==
    /\ \E k \in 1..Len(self.tract_buffer) :
          cell.geometry \cap self.tract_buffer[k].geometry # {}
    /\ \E k \in 1..Len(self.pois) : self.pois[k].geometry \cap cell.geometry # {}

RowsOfCell(frame, cell) ==
    {k \in 1..Len(frame) : frame[k].cell_id = cell.cell_id}

\* C13: the potential-cell layer has exactly one row for every grid cell
\* that intersects the outlier buffer and holds an allowed point, however
\* many points it holds, and no other row.
C13_OneRowPerPotentialCell ==
    PotentialCellsDone =>
        /\ \A g \in 1..Len(self.grid) :
              Cardinality(RowsOfCell(self.potential_cells, self.grid[g]))
                 = IF IsPotentialCell(self.grid[g]) THEN 1 ELSE 0
        /\ \A k \in 1..Len(self.potential_cells) :
              \E g \in 1..Len(self.grid) :
                 self.potential_cells[k] = self.grid[g]

RankedDone == call.fn = "run" /\ "ranked_pois" \in DOMAIN self

\* the potential cells that hold the point
CellsHolding(poi) ==
    {k \in 1..Len(self.potential_cells) :
        poi.geometry \cap self.potential_cells[k].geometry # {}}

\* the event score computed for the cell with this id
ScoreOfCell(cell_id) ==
    LET k == CHOOSE k \in 1..Len(self.event_scores_all_cells) :
                 self.event_scores_all_cells[k].cell_id = cell_id
    IN self.event_scores_all_cells[k].event_score

RowsOfPoi(frame, poi) == {k \in 1..Len(frame) : frame[k].id = poi.id}

\* C14: the ranked table holds every point of an allowed type that lies in
\* a potential cell, once, with the event score of that cell, and no point
\* that lies outside every potential cell.
C14_RankedPoisAnnotated ==
    RankedDone =>
        /\ \A p \in 1..Len(self.pois) :
              Cardinality(RowsOfPoi(self.ranked_pois, self.pois[p]))
                 = IF CellsHolding(self.pois[p]) # {} THEN 1 ELSE 0
        /\ \A k \in 1..Len(self.ranked_pois) :
              \E p \in 1..Len(self.pois) :
                 /\ self.pois[p].id = self.ranked_pois[k].id
                 /\ self.pois[p].geometry = self.ranked_pois[k].geometry
                 /\ self.pois[p].type \in self.poi_types
                 /\ \A c \in CellsHolding(self.pois[p]) :
                       self.ranked_pois[k].event_score
                          = ScoreOfCell(self.potential_cells[c].cell_id)

\* two points in one potential cell, which the cell layer lists twice, and
\* a point of an allowed type that lies in no potential cell
C14_Witness ==
    /\ RankedDone
    /\ Len(self.ranked_pois) = 2
    /\ Len(self.potential_cells) = 2
    /\ self.potential_cells[1] = self.potential_cells[2]
    /\ \E p \in 1..Len(self.pois) : CellsHolding(self.pois[p]) = {}

DefinedScore(row) == row.event_score # <<NaN>>

\* C15: the rows of the ranked table are in non-increasing order of event
\* score: of two rows with defined scores the earlier one's score is not
\* below the later one's.
C15_RankedDescending ==
    RankedDone =>
        \A k, l \in 1..Len(self.ranked_pois) :
            (k < l /\ DefinedScore(self.ranked_pois[k])
                   /\ DefinedScore(self.ranked_pois[l]))
               => ~ScoreLt(self.ranked_pois[k].event_score,
                           self.ranked_pois[l].event_score)

\* the sort moved a row: the first point of the layer has the lower score
C15_Witness ==
    /\ RankedDone
    /\ Len(self.ranked_pois) = 2
    /\ ScoreLt(self.ranked_pois[2].event_score, self.ranked_pois[1].event_score)
    /\ self.ranked_pois[1].id > self.ranked_pois[2].id

TargetEpsg == 4326

PastStandardizeProjections ==
    call.fn = "run" /\ pc \notin {"run", "_standardize_projections"}

\* C16: once _standardize_projections has run, the tracts, the points and
\* the grid that the later stages use are all in the target CRS.
C16_LayersInTargetCrs ==
    PastStandardizeProjections =>
        /\ self.tracts_crs = TargetEpsg
        /\ self.pois_crs = TargetEpsg
        /\ self.grid_crs = TargetEpsg

(***************************************************************************)
(* Frame claim about the composite scorer (specification SpecScore)        *)
(***************************************************************************)
\* C17: generate_index_score does not mutate its input: when it returns,
\* every column of the caller's table holds the values it held at the call.
C17_ScorerLeavesInputUnchanged ==
    ScoreDone => call.df = call.args.df

(***************************************************************************)
(* utils/geocoder_us_census.py mp_geocoder.  The pool has as many workers  *)
(* as there are chunks, so every submitted future may run at once; a       *)
(* worker either returns the geocoded chunk or ends with an exception.     *)
(***************************************************************************)
\* np.array_split(df, sections): contiguous chunks, the first
\* len(df) % sections of them one row longer
ArraySplit(df, sections) ==
    LET short == Len(df) \div sections
        long == Len(df) % sections
        start(k) == (k - 1) * short + (IF k - 1 < long THEN k - 1 ELSE long)
    IN [k \in 1..sections |-> SubSeq(df, start(k) + 1, start(k + 1))]

\* census_geocode_records on a chunk that the service answers
CensusGeocodeRecords(df_chunk) ==
    [i \in 1..Len(df_chunk) |-> [id |-> df_chunk[i].unique_id, is_match |-> "Match"]]

\* a variant of future.result() that turns a failed worker into no rows
FutureResult_Swallowed(future) ==
    IF future.state = "failed" THEN Returned(<<>>) ELSE Returned(future.rows)

\* future.result(): the worker's rows, or its exception raised again
FutureResult(future) ==
    IF future.state = "failed" THEN Raised("WorkerError") ELSE Returned(future.rows)

\* bounds of the geocoder specification
MaxAddresses == 3

MaxCpus == 4

InitGeocode ==
    /\ pc = "call"
    /\ \E n \in 0..MaxAddresses, cpu_count \in 1..MaxCpus :
          call = [fn |-> "mp_geocoder",
                  df |-> [i \in 1..n |-> [unique_id |-> i]],
                  cpu_count |-> cpu_count,
                  df_splits |-> <<>>,
                  procs |-> <<>>,
                  yielded |-> {},
                  df_coded |-> <<>>]
    /\ self = <<>>
    /\ ret = None
    /\ spatial_ops = <<>>

InGeocode(at) == pc = at /\ call.fn = "mp_geocoder"

\* lines 135-138
GeocodeSplit ==
    /\ InGeocode("call")
    /\ LET cpus == IF call.cpu_count - 1 < Len(call.df) THEN call.cpu_count - 1
                   ELSE Len(call.df)
       IN IF cpus = 0
          THEN /\ ret' = Raised("ValueError")
               /\ pc' = "done"
               /\ UNCHANGED call
          ELSE /\ call' = [call EXCEPT !.df_splits = ArraySplit(call.df, cpus)]
               /\ pc' = "submit"
               /\ UNCHANGED ret
    /\ UNCHANGED <<self, spatial_ops>>

\* lines 141-144: one pass of the submit loop
GeocodeSubmit ==
    /\ InGeocode("submit")
    /\ Len(call.procs) < Len(call.df_splits)
    /\ call' = [call EXCEPT !.procs = Append(@, [state |-> "pending", rows |-> <<>>])]
    /\ UNCHANGED <<pc, self, ret, spatial_ops>>

\* a worker process runs one submitted chunk to its end
WorkerRun(i) ==
    /\ call.fn = "mp_geocoder"
    /\ i \in 1..Len(call.procs)
    /\ call.procs[i].state = "pending"
    /\ \/ call' = [call EXCEPT !.procs[i] =
                      [state |-> "finished",
                       rows |-> CensusGeocodeRecords(call.df_splits[i])]]
       \/ call' = [call EXCEPT !.procs[i] = [state |-> "failed", rows |-> <<>>]]
    /\ UNCHANGED <<pc, self, ret, spatial_ops>>

\* line 140: leaving the with block waits for every future
GeocodeShutdown ==
    /\ InGeocode("submit")
    /\ Len(call.procs) = Len(call.df_splits)
    /\ \A i \in 1..Len(call.procs) : call.procs[i].state # "pending"
    /\ pc' = "collect"
    /\ UNCHANGED <<self, call, ret, spatial_ops>>

\* lines 146-150: the next future as_completed yields, all of them being
\* done, in no particular order
GeocodeCollect ==
    /\ InGeocode("collect")
    /\ \E i \in (1..Len(call.procs)) \ call.yielded :
          LET r == FutureResult(call.procs[i])
          IN IF r.kind = "raise"
             THEN /\ ret' = r
                  /\ pc' = "done"
                  /\ UNCHANGED call
             ELSE /\ call' = [call EXCEPT !.yielded = @ \cup {i},
                                          !.df_coded = @ \o r.value]
                  /\ UNCHANGED <<pc, ret>>
    /\ UNCHANGED <<self, spatial_ops>>

\* line 152
GeocodeReturn ==
    /\ InGeocode("collect")
    /\ call.yielded = 1..Len(call.procs)
    /\ ret' = Returned(call.df_coded)
    /\ pc' = "done"
    /\ UNCHANGED <<self, call, spatial_ops>>

NextGeocode ==
    \/ GeocodeSplit
    \/ GeocodeSubmit
    \/ \E i \in 1..Len(call.procs) : WorkerRun(i)
    \/ GeocodeShutdown
    \/ GeocodeCollect
    \/ GeocodeReturn

SpecGeocode == InitGeocode /\ [][NextGeocode]_vars

(***************************************************************************)
(* Claims about mp_geocoder (specification SpecGeocode)                    *)
(***************************************************************************)
GeocodeDone == InGeocode("done")

GeocodeHasSplit == call.fn = "mp_geocoder" /\ call.df_splits # <<>>

\* the positions of the returned table that hold the row geocoded from the
\* given input row
RowsCodedFrom(frame, row) == {k \in 1..Len(frame) : frame[k].id = row.unique_id}

\* C18: the chunks are disjoint and cover the input; a returned table holds
\* the result of every chunk exactly once, whatever the order the workers
\* were collected in; and when a worker has failed the call raises instead
\* of returning a table.
C18_EveryChunkOnceOrFailure ==
    /\ GeocodeHasSplit => Flatten(call.df_splits) = call.df
    /\ (GeocodeDone /\ ret.kind = "return") =>
          /\ Len(ret.value) = Len(call.df)
          /\ \A i \in 1..Len(call.df) :
                Cardinality(RowsCodedFrom(ret.value, call.df[i])) = 1
          /\ \A c \in 1..Len(call.df_splits) :
                \E at \in 0..Len(ret.value) :
                   SubSeq(ret.value, at + 1, at + Len(call.df_splits[c]))
                      = CensusGeocodeRecords(call.df_splits[c])
    /\ (GeocodeDone /\ \E i \in 1..Len(call.procs) : call.procs[i].state = "failed")
          => ret.kind = "raise"

\* a table returned with its chunks out of submission order
C18_Witness ==
    /\ GeocodeDone
    /\ ret.kind = "return"
    /\ Len(call.df_splits) >= 2
    /\ ret.value # CensusGeocodeRecords(call.df)

(***************************************************************************)
(* utils/parse_address.py AddressParser.  An address is the sequence of    *)
(* (token, tag) pairs that usaddress.parse gives for it; a joined string   *)
(* is the sequence of the tokens that " ".join puts a space between.       *)
(***************************************************************************)
\* _merge_tuples_by_key: itertools.groupby, one (key, values) pair for
\* every run of consecutive tuples with the same key
RECURSIVE MergeTuplesByKey(_)
MergeTuplesByKey(tups) ==
    IF tups = <<>> THEN <<>>
    ELSE LET rest == MergeTuplesByKey(Tail(tups))
         IN IF rest # <<>> /\ rest[1][1] = tups[1][1]
            THEN <<<<tups[1][1], <<tups[1][2]>> \o rest[1][2]>>>> \o Tail(rest)
            ELSE <<<<tups[1][1], <<tups[1][2]>>>>>> \o rest

\* the tags some key of the crosswalk lists
CategorizedTags(crosswalk) == UNION {crosswalk[k].tags : k \in 1..Len(crosswalk)}

\* _reverse_crosswalk: the first key that lists the tag
ReverseCrosswalk(crosswalk, tag) ==
    crosswalk[CHOOSE k \in 1..Len(crosswalk) :
                 /\ tag \in crosswalk[k].tags
                 /\ \A j \in 1..(k - 1) : tag \notin crosswalk[j].tags].key

Str(tokens) == [kind |-> "str", tokens |-> tokens]

\* _tuple_with_list_to_dict: {k: " ".join(sum(v, [])) for k, v in tup};
\* a later pair with the same key replaces the earlier one
TupleWithListToDict(tup) ==
    [key \in {tup[k][1] : k \in 1..Len(tup)} |->
        LET last == CHOOSE k \in 1..Len(tup) :
                       /\ tup[k][1] = key
                       /\ \A j \in (k + 1)..Len(tup) : tup[j][1] # key
        IN Str(Flatten(tup[last][2]))]

\* _enforce_crosswalk_keys
EnforceCrosswalkKeys(out_dict, crosswalk) ==
    LET missing == {crosswalk[k].key : k \in 1..Len(crosswalk)}
                      \ (DOMAIN out_dict \cup {"_other"})
    IN [key \in DOMAIN out_dict \cup missing |->
           IF key \in DOMAIN out_dict THEN out_dict[key] ELSE None]

\* AddressParser.parse, lines 99-133
Parse(tagged, crosswalk) ==
    LET reverse == [i \in 1..Len(tagged) |-> <<tagged[i][2], tagged[i][1]>>]
        combined_by_tag == MergeTuplesByKey(reverse)
    IN IF \E i \in 1..Len(combined_by_tag) :
             combined_by_tag[i][1] \notin CategorizedTags(crosswalk)
       THEN Raised("KeyError")
       ELSE LET replaced == [i \in 1..Len(combined_by_tag) |->
                               <<ReverseCrosswalk(crosswalk, combined_by_tag[i][1]),
                                 combined_by_tag[i][2]>>]
                merged == MergeTuplesByKey(replaced)
                parsed == TupleWithListToDict(merged)
            IN Returned(EnforceCrosswalkKeys(parsed, crosswalk))

\* bounds and inputs of the address-parser specification
MaxTokens == 3

Words == <<"705", "EMMETT", "ST", "KISSIMMEE", "FL">>

AddressTags == {"AddressNumber", "StreetName", "PlaceName", "Recipient"}

\* the addresses, as tagged: the empty one and every tagging of the first
\* words
Addresses ==
    UNION {{[i \in 1..n |-> <<Words[i], tags[i]>>] : tags \in [1..n -> AddressTags]} :
              n \in 0..MaxTokens}

FeatCrosswalk ==
    <<[key |-> "Street_Address_1", tags |-> {"AddressNumber", "StreetName"}],
      [key |-> "City", tags |-> {"PlaceName"}],
      [key |-> "Country", tags |-> {"CountryName"}],
      [key |-> "_other", tags |-> {"Recipient"}]>>

Crosswalks == {FeatCrosswalk, SubSeq(FeatCrosswalk, 1, 3)}

EmmettStreet == <<<<"705", "AddressNumber">>, <<"EMMETT", "StreetName">>>>

\* a call of parse_series on a column of one or two addresses
InitParse ==
    /\ pc = "call"
    /\ \E col \in {<<>>} \cup {<<a>> : a \in Addresses}
                         \cup {<<EmmettStreet, a>> : a \in Addresses},
          crosswalk \in Crosswalks :
          call = [fn |-> "parse_series",
                  col |-> col,
                  crosswalk |-> crosswalk,
                  parsed_series |-> <<>>]
    /\ self = <<>>
    /\ ret = None
    /\ spatial_ops = <<>>

InParse(at) == pc = at /\ call.fn = "parse_series"

\* line 72: col.map applies parse to the next address
ParseSeriesMap ==
    /\ InParse("call")
    /\ Len(call.parsed_series) < Len(call.col)
    /\ LET r == Parse(call.col[Len(call.parsed_series) + 1], call.crosswalk)
       IN IF r.kind = "raise"
          THEN /\ ret' = r
               /\ pc' = "done"
               /\ UNCHANGED call
          ELSE /\ call' = [call EXCEPT !.parsed_series = Append(@, r.value)]
               /\ UNCHANGED <<pc, ret>>
    /\ UNCHANGED <<self, spatial_ops>>

\* line 74
ParseSeriesReturn ==
    /\ InParse("call")
    /\ Len(call.parsed_series) = Len(call.col)
    /\ ret' = Returned(call.parsed_series)
    /\ pc' = "done"
    /\ UNCHANGED <<self, call, spatial_ops>>

NextParse == ParseSeriesMap \/ ParseSeriesReturn

SpecParse == InitParse /\ [][NextParse]_vars

(***************************************************************************)
(* Claims about the address parser (specification SpecParse)               *)
(***************************************************************************)
ParseDone == InParse("done")

\* the tokens of the address that carry one of the tags, in address order
TokensTagged(tagged, tags) ==
    LET hits == SelectSeq(tagged, LAMBDA pair : pair[2] \in tags)
    IN [i \in 1..Len(hits) |-> hits[i][1]]

AllTagsCategorized(tagged, crosswalk) ==
    \A i \in 1..Len(tagged) : tagged[i][2] \in CategorizedTags(crosswalk)

\* the row is what the claim says parse returns for the address
RowAsSpecified(row, tagged, crosswalk) ==
    \A k \in 1..Len(crosswalk) :
        crosswalk[k].key # "_other" =>
            /\ crosswalk[k].key \in DOMAIN row
            /\ row[crosswalk[k].key] =
                  IF TokensTagged(tagged, crosswalk[k].tags) = <<>> THEN None
                  ELSE Str(TokensTagged(tagged, crosswalk[k].tags))

\* C19: for addresses whose tags the crosswalk all lists, parse_series
\* returns one row per address, in order, and each row has every crosswalk
\* key but "_other": None when no token carries a tag of the key, else all
\* the tokens that carry one, in address order, joined by spaces.
C19_ParsedRowsKeepEveryToken ==
    (ParseDone /\ \A i \in 1..Len(call.col) :
                     AllTagsCategorized(call.col[i], call.crosswalk)) =>
        /\ ret.kind = "return"
        /\ Len(ret.value) = Len(call.col)
        /\ \A i \in 1..Len(call.col) :
              RowAsSpecified(ret.value[i], call.col[i], call.crosswalk)

====
